---- MODULE Spec2Model ----
(***************************************************************************)
(* A model of the PasswordManager repository: the SQLite tables kept by    *)
(* DataManager, the Fernet cipher of EncryptionManager, the bcrypt hashing *)
(* used for the admin record, PasswordValidator, the password generator    *)
(* and the operations of PasswordManager.                                  *)
(*                                                                         *)
(* Strings are sequences of one-character strings, so that len(), lower(), *)
(* the character-class tests and the regular-expression search are         *)
(* computed character by character as the code computes them.              *)
(***************************************************************************)
EXTENDS Naturals, Integers, Sequences, FiniteSets, TLC

VARIABLES
    keyfiles,    \* the key files on disk: path -> key id, 0 when the file is absent
    keysMade,    \* how many keys Fernet.generate_key() has produced so far
    pm,          \* the PasswordManager instance: key_file, its cipher's key, its DataManager's cipher's key
    passwords,   \* table passwords, in rowid order: rows (website, email, password)
    users,       \* table users, in rowid order: rows (username, password)
    call,        \* the last operation called and its arguments
    ret,         \* what that call returned, or the exception it raised
    gen,         \* generate_strong_password: its position and local variables
    threads,     \* callers running an operation of one PasswordManager at the same time
    ui           \* PasswordManagerUI: the screen shown and what the user has done on it

vars == <<keyfiles, keysMade, pm, passwords, users, call, ret, gen, threads, ui>>
vaultVars == <<keyfiles, keysMade, pm, passwords, users, call, ret, threads, ui>>

-----------------------------------------------------------------------------
(* Characters and strings *)

lowercase == <<"a","b","c","d","e","f","g","h","i","j","k","l","m",
               "n","o","p","q","r","s","t","u","v","w","x","y","z">>

uppercase == <<"A","B","C","D","E","F","G","H","I","J","K","L","M",
               "N","O","P","Q","R","S","T","U","V","W","X","Y","Z">>

digits == <<"0","1","2","3","4","5","6","7","8","9">>

\* the generator's special characters: !@#$%^&*()_+{}|:"<>?
special == <<"!","@","#","$","%","^","&","*","(",")","_","+","{","}","|",":","\"","<",">","?">>

\* the character class of the validator's regular expression: [!@#$%^&*(),.?":{}|<>]
SPECIAL_RE == {"!","@","#","$","%","^","&","*","(",")",",",".","?","\"",":","{","}","|","<",">"}

Range(s) == {s[i] : i \in 1..Len(s)}

LowercaseLetters == Range(lowercase)
UppercaseLetters == Range(uppercase)
Digits == Range(digits)

islower(c) == c \in LowercaseLetters

isupper(c) == c \in UppercaseLetters

isdigit(c) == c \in Digits

\* the lowercase letter of each uppercase letter
Lowered == [c \in UppercaseLetters |->
               lowercase[CHOOSE i \in 1..Len(uppercase) : uppercase[i] = c]]

\* str.lower() on one character
lower_char(c) == IF isupper(c) THEN Lowered[c] ELSE c

\* str.lower() / SQL LOWER()
lower(s) == [i \in 1..Len(s) |-> lower_char(s[i])]

-----------------------------------------------------------------------------
(* PasswordValidator *)

MIN_LENGTH == 8

MSG_LENGTH == "Password must be at least 8 characters long."
MSG_CASE == "Password must contain both uppercase and lowercase letters."
MSG_DIGIT == "Password must contain at least one digit."
MSG_SPECIAL == "Password must contain at least one special character (!@#$%^&*(), etc.)."

\* the validator returning at the first rule that fails
validate_password_strength_first_only(password) ==
    LET chars == Range(password)
        tooShort == Len(password) < MIN_LENGTH
        noCase == (~ \E c \in chars : islower(c)) \/ (~ \E c \in chars : isupper(c))
        noDigit == ~ \E c \in chars : isdigit(c)
        noSpecial == ~ \E c \in chars : c \in SPECIAL_RE
    IN [is_valid |-> ~(tooShort \/ noCase \/ noDigit \/ noSpecial),
        messages |-> IF tooShort THEN <<MSG_LENGTH>>
                     ELSE IF noCase THEN <<MSG_CASE>>
                     ELSE IF noDigit THEN <<MSG_DIGIT>>
                     ELSE IF noSpecial THEN <<MSG_SPECIAL>>
                     ELSE <<>>]

validate_password_strength(password) ==
    LET chars == Range(password)
        tooShort == Len(password) < MIN_LENGTH
        noCase == (~ \E c \in chars : islower(c)) \/ (~ \E c \in chars : isupper(c))
        noDigit == ~ \E c \in chars : isdigit(c)
        noSpecial == ~ \E c \in chars : c \in SPECIAL_RE
        messages == (IF tooShort THEN <<MSG_LENGTH>> ELSE <<>>)
                    \o (IF noCase THEN <<MSG_CASE>> ELSE <<>>)
                    \o (IF noDigit THEN <<MSG_DIGIT>> ELSE <<>>)
                    \o (IF noSpecial THEN <<MSG_SPECIAL>> ELSE <<>>)
    IN [is_valid |-> ~(tooShort \/ noCase \/ noDigit \/ noSpecial),
        messages |-> messages]

-----------------------------------------------------------------------------
(* Python values handed to the crypto layer: a str, or the bytes of a      *)
(* bcrypt hash.  Stored blobs: a Fernet token, a bcrypt hash, or junk.     *)

Str(s) == [ty |-> "str", s |-> s, salt |-> 0]

NoBlob == [kind |-> "none", key |-> 0, iv |-> 0, s |-> <<>>, salt |-> 0, mac |-> <<0, <<>>>>]

\* the initialisation vectors (and timestamps) a Fernet token can carry: one
\* representative, no operation of the vault compares two tokens
IVs == {1}

\* the salts bcrypt.gensalt() can return
Salts == {1}

\* bcrypt.hashpw(password.encode(), salt): bytes
hashpw(password, salt) == [ty |-> "bytes", s |-> password, salt |-> salt]

\* bcrypt.checkpw(password.encode(), hashed_password): a hash that is not a
\* well-formed bcrypt hash raises ValueError (invalid salt)
checkpw(password, hashed_password) ==
    IF hashed_password.kind = "bcrypt"
    THEN [exc |-> "none", val |-> (hashed_password.s = password)]
    ELSE [exc |-> "ValueError", val |-> FALSE]

\* characters outside ASCII: one that UTF-8 encodes in two bytes, and a lone
\* surrogate code point, which a Python str can hold and UTF-8 cannot encode
E_ACUTE == "U+00E9"
SURROGATE == "U+D800"

\* str.encode(): UTF-8, an ASCII character is its own byte
RECURSIVE utf8(_)
utf8(s) ==
    IF s = <<>> THEN <<>>
    ELSE (IF Head(s) = E_ACUTE THEN <<"0xC3", "0xA9">> ELSE <<Head(s)>>) \o utf8(Tail(s))

encode(s) ==
    IF \E i \in 1..Len(s) : s[i] = SURROGATE
    THEN [exc |-> "UnicodeEncodeError", val |-> <<>>]
    ELSE [exc |-> "none", val |-> utf8(s)]

\* bytes.decode(): a lead byte needs its continuation byte, a continuation byte
\* (or a code point that is no byte) alone is invalid
RECURSIVE wellformed(_)
wellformed(b) ==
    IF b = <<>> THEN TRUE
    ELSE IF Head(b) = "0xC3" THEN Len(b) >= 2 /\ b[2] = "0xA9" /\ wellformed(Tail(Tail(b)))
    ELSE Head(b) \notin {"0xA9", E_ACUTE, SURROGATE} /\ wellformed(Tail(b))

\* bytes.decode("latin-1"): every byte is a character of its own
latin1_chars(b) == b

RECURSIVE utf8_chars(_)
utf8_chars(b) ==
    IF b = <<>> THEN <<>>
    ELSE IF Head(b) = "0xC3" THEN <<E_ACUTE>> \o utf8_chars(Tail(Tail(b)))
    ELSE <<Head(b)>> \o utf8_chars(Tail(b))

decode(b) ==
    IF wellformed(b)
    THEN [exc |-> "none", val |-> utf8_chars(b)]
    ELSE [exc |-> "UnicodeDecodeError", val |-> <<>>]

\* the HMAC of a token: it binds the initialisation vector and the ciphertext
\* under the key the token was made with
hmac(iv, ciphertext) == <<iv, ciphertext>>

\* EncryptionManager.encrypt: plaintext.encode() exists on str only; the token
\* carries the encoded plaintext enciphered under key
encrypt(key, iv, plaintext) ==
    IF plaintext.ty # "str"
    THEN [exc |-> "AttributeError", val |-> NoBlob]
    ELSE IF encode(plaintext.s).exc # "none"
    THEN [exc |-> encode(plaintext.s).exc, val |-> NoBlob]
    ELSE [exc |-> "none",
          val |-> [kind |-> "fernet", key |-> key, iv |-> iv, s |-> encode(plaintext.s).val,
                   salt |-> 0, mac |-> hmac(iv, encode(plaintext.s).val)]]

\* a decrypt that deciphers without verifying the HMAC
decrypt_unauthenticated(key, encrypted_text) ==
    IF encrypted_text.kind = "fernet" /\ encrypted_text.key = key
    THEN decode(encrypted_text.s)
    ELSE [exc |-> "InvalidToken", val |-> <<>>]

\* EncryptionManager.decrypt: Fernet raises InvalidToken unless the token parses,
\* its HMAC verifies under this key and it was enciphered under this key; the
\* deciphered bytes are decoded
decrypt(key, encrypted_text) ==
    IF /\ encrypted_text.kind = "fernet"
       /\ encrypted_text.key = key
       /\ encrypted_text.mac = hmac(encrypted_text.iv, encrypted_text.s)
    THEN decode(encrypted_text.s)
    ELSE [exc |-> "InvalidToken", val |-> <<>>]

\* the key file DataManager falls back to, and the other path a caller can name
DEFAULT_KEY_FILE == "data/key.key"

KeyFiles == {DEFAULT_KEY_FILE, "test_data/key_test.key"}

\* content of a key file: 0 absent, -1 present but not a Fernet key, else the key
ABSENT == 0
MALFORMED == -1

\* a loader that generates and writes a key whether or not the file holds one
load_or_generate_key_always(fs, made, key_file) ==
    [fs |-> [fs EXCEPT ![key_file] = made + 1], made |-> made + 1, key |-> made + 1]

\* EncryptionManager._load_or_generate_key on the files fs with made keys so far
load_or_generate_key(fs, made, key_file) ==
    IF fs[key_file] # ABSENT /\ fs[key_file] # MALFORMED
    THEN [fs |-> fs, made |-> made, key |-> fs[key_file]]
    ELSE [fs |-> [fs EXCEPT ![key_file] = made + 1], made |-> made + 1, key |-> made + 1]

-----------------------------------------------------------------------------
(* DataManager: the tables as sequences of rows in rowid order *)

default_password == <<"p","a","s","s","w","o","r","d","1","2","3">>

IsAdmin(row) == row.username = "admin"

admin_insert(tbl, key, iv) ==
    Append(tbl, [username |-> "admin", password |-> encrypt(key, iv, Str(default_password)).val])

\* ensure_admin_user without the COUNT(*) test
ensure_admin_user_unchecked(tbl, key, iv) == admin_insert(tbl, key, iv)

ensure_admin_user(tbl, key, iv) ==
    LET admin_exists == Len(SelectSeq(tbl, IsAdmin)) > 0
    IN IF ~admin_exists THEN admin_insert(tbl, key, iv) ELSE tbl

\* fetchone() of SELECT password FROM users WHERE username = ?
get_user_by_username(tbl, username) ==
    LET hits == SelectSeq(tbl, LAMBDA row : row.username = username)
    IN IF hits = <<>> THEN [found |-> FALSE, password |-> NoBlob]
       ELSE [found |-> TRUE, password |-> hits[1].password]

\* DataManager.update_admin_password: encrypts first, then UPDATE users
dm_update_admin_password(tbl, key, iv, new_password) ==
    LET e == encrypt(key, iv, new_password)
    IN IF e.exc # "none" THEN [exc |-> e.exc, users |-> tbl]
       ELSE [exc |-> "none",
             users |-> [i \in 1..Len(tbl) |->
                          IF tbl[i].username = "admin"
                          THEN [tbl[i] EXCEPT !.password = e.val] ELSE tbl[i]]]

\* save_password storing the site name case-folded
dm_save_password_folded(tbl, website, email, password) ==
    Append(tbl, [website |-> lower(website), email |-> email, password |-> password])

\* DataManager.save_password: INSERT INTO passwords
dm_save_password(tbl, website, email, password) ==
    Append(tbl, [website |-> website, email |-> email, password |-> password])

\* the WHERE clause as a prefix match: LOWER(website) LIKE ? || '%'
Matches_prefix(row, website) ==
    /\ Len(website) <= Len(row.website)
    /\ lower(SubSeq(row.website, 1, Len(website))) = lower(website)

Matches(row, website) == lower(row.website) = lower(website)

NoRow == [website |-> <<>>, email |-> "", password |-> NoBlob]

\* DataManager.search_password: fetchone() of the rows WHERE LOWER(website) = ?
dm_search_password(tbl, website) ==
    LET hits == SelectSeq(tbl, LAMBDA row : Matches(row, website))
    IN IF hits = <<>> THEN [found |-> FALSE, row |-> NoRow]
       ELSE [found |-> TRUE, row |-> hits[1]]

\* update_password without its WHERE clause
dm_update_password_everywhere(tbl, website, new_encrypted_password) ==
    [i \in 1..Len(tbl) |-> [tbl[i] EXCEPT !.password = new_encrypted_password]]

\* DataManager.update_password: UPDATE ... WHERE LOWER(website) = ?
dm_update_password(tbl, website, new_encrypted_password) ==
    [i \in 1..Len(tbl) |->
        IF Matches(tbl[i], website)
        THEN [tbl[i] EXCEPT !.password = new_encrypted_password] ELSE tbl[i]]

\* delete_password comparing the site name as given: WHERE website = ?
dm_delete_password_exact(tbl, website) ==
    SelectSeq(tbl, LAMBDA row : row.website # website)

\* DataManager.delete_password: DELETE ... WHERE LOWER(website) = ?
dm_delete_password(tbl, website) ==
    SelectSeq(tbl, LAMBDA row : ~Matches(row, website))

-----------------------------------------------------------------------------
(* Bounds and the inputs the operations are called with *)

\* rows the passwords table may hold
MaxRows == 2

Sites == {<<>>, <<"E","x">>, <<"e","x">>, <<"e">>}

Emails == {"", "u1"}

Usernames == {"admin", "bob"}

StrongA == <<"P","a","s","s","w","0","r","d","!">>
StrongB == <<"N","e","w","S","t","r","0","n","g","?">>

\* the empty string, a weak password (the default admin password) and two strong ones
Secrets == {<<>>, default_password, StrongA, StrongB}

-----------------------------------------------------------------------------
(* PasswordManager *)

\* the messages the operations return
SAVED == "Password saved successfully."
UPDATED == "Password updated successfully."
DELETED == "Password deleted successfully."
NOT_FOUND == "Error: Website not found."
TOO_WEAK == "Password is too weak:"
ROTATED == "Admin password updated successfully!"
MISSING == "All fields (website, email, password) are required."
SEARCH_ERROR == "Error occurred while searching for the password."

Call(op, website, email, password, username) ==
    [op |-> op, website |-> website, email |-> email, password |-> password,
     username |-> username]

\* a returned value: text is the message (or the kind of value), messages the
\* validation messages joined into it, rows the tuples it carries
Return(text, messages, rows) ==
    [exc |-> "none", text |-> text, messages |-> messages, rows |-> rows]

Raise(exc) == [exc |-> exc, text |-> "", messages |-> <<>>, rows |-> <<>>]

\* PasswordManager.__init__(key_file=key_file): its own EncryptionManager, then
\* DataManager(db_path) with the default key file, whose constructor calls
\* ensure_admin_user, then ensure_admin_user once more.  Both constructors
\* build EncryptionManager through the keywords (key_file, key); no key is
\* injected here, so each cipher's key is loaded or generated from its file.
construct(fs, made, tbl, key_file, iv1, iv2) ==
    LET own == load_or_generate_key(fs, made, key_file)
        dm == load_or_generate_key(own.fs, own.made, DEFAULT_KEY_FILE)
        u1 == ensure_admin_user(tbl, dm.key, iv1)
        u2 == ensure_admin_user(u1, dm.key, iv2)
    IN [fs |-> dm.fs, made |-> dm.made, users |-> u2,
        pm |-> [key_file |-> key_file, key |-> own.key, dm_key |-> dm.key]]

InitVault ==
    \E key_file \in KeyFiles, iv1 \in IVs, iv2 \in IVs :
        LET c == construct([f \in KeyFiles |-> ABSENT], 0, <<>>, key_file, iv1, iv2)
        IN /\ keyfiles = c.fs
           /\ keysMade = c.made
           /\ pm = c.pm
           /\ users = c.users
           /\ passwords = <<>>
           /\ call = Call("__init__", <<>>, "", <<>>, "")
           /\ ret = Return("None", <<>>, <<>>)

GenIdle == [pc |-> "idle", length |-> 0, password |-> <<>>, i |-> 0]

\* no caller is inside an operation
NoThreads == [initial |-> <<>>, callers |-> <<>>]

\* what the entry fields of a screen hold when a callback reads them
NoEntries == [current |-> <<>>, new |-> <<>>, confirm |-> <<>>]

\* no window has been built
NoUI == [screen |-> "none", current_screen |-> "none", configured |-> FALSE,
         language |-> "English", entries |-> NoEntries]

Init == InitVault /\ gen = GenIdle /\ threads = NoThreads /\ ui = NoUI

\* a second PasswordManager built against the same database and key file
Restart ==
    \E iv1 \in IVs, iv2 \in IVs :
        LET c == construct(keyfiles, keysMade, users, pm.key_file, iv1, iv2)
        IN /\ keyfiles' = c.fs
           /\ keysMade' = c.made
           /\ pm' = c.pm
           /\ users' = c.users
           /\ call' = Call("__init__", <<>>, "", <<>>, "")
           /\ ret' = Return("None", <<>>, <<>>)
           /\ UNCHANGED <<passwords, gen, threads, ui>>

\* save_password without the strength gate
save_password_ungated(website, email, password, iv) ==
    /\ call' = Call("save_password", website, email, password, "")
    /\ IF website = <<>> \/ email = "" \/ password = <<>>
       THEN /\ ret' = Return(MISSING, <<>>, <<>>)
            /\ UNCHANGED passwords
       ELSE /\ Len(passwords) < MaxRows
            /\ passwords' = dm_save_password(passwords, website, email,
                                             encrypt(pm.key, iv, Str(password)).val)
            /\ ret' = Return(SAVED, <<>>, <<>>)
    /\ UNCHANGED <<keyfiles, keysMade, pm, users, gen, threads, ui>>

\* save_password requiring only the site and the secret
save_password_any_email(website, email, password, iv) ==
    LET v == validate_password_strength(password)
    IN /\ call' = Call("save_password", website, email, password, "")
       /\ IF website = <<>> \/ password = <<>>
          THEN /\ ret' = Return(MISSING, <<>>, <<>>)
               /\ UNCHANGED passwords
          ELSE IF ~v.is_valid
          THEN /\ ret' = Return(TOO_WEAK, v.messages, <<>>)
               /\ UNCHANGED passwords
          ELSE /\ Len(passwords) < MaxRows
               /\ passwords' = dm_save_password(passwords, website, email,
                                                encrypt(pm.key, iv, Str(password)).val)
               /\ ret' = Return(SAVED, <<>>, <<>>)
       /\ UNCHANGED <<keyfiles, keysMade, pm, users, gen, threads, ui>>

save_password(website, email, password, iv) ==
    LET v == validate_password_strength(password)
    IN /\ call' = Call("save_password", website, email, password, "")
       /\ IF website = <<>> \/ email = "" \/ password = <<>>
          THEN /\ ret' = Return(MISSING, <<>>, <<>>)
               /\ UNCHANGED passwords
          ELSE IF ~v.is_valid
          THEN /\ ret' = Return(TOO_WEAK, v.messages, <<>>)
               /\ UNCHANGED passwords
          ELSE /\ Len(passwords) < MaxRows
               /\ passwords' = dm_save_password(passwords, website, email,
                                                encrypt(pm.key, iv, Str(password)).val)
               /\ ret' = Return(SAVED, <<>>, <<>>)
       /\ UNCHANGED <<keyfiles, keysMade, pm, users, gen, threads, ui>>

SavePassword ==
    \E website \in Sites, email \in Emails, password \in Secrets, iv \in IVs :
        save_password(website, email, password, iv)

\* the value get_passwords returns for a table
get_passwords(tbl, key) ==
    IF \E i \in 1..Len(tbl) : decrypt(key, tbl[i].password).exc # "none"
    THEN Return("list", <<>>, <<>>)
    ELSE Return("list", <<>>,
                [i \in 1..Len(tbl) |->
                    [website |-> tbl[i].website, email |-> tbl[i].email,
                     password |-> decrypt(key, tbl[i].password).val]])

GetPasswords ==
    /\ call' = Call("get_passwords", <<>>, "", <<>>, "")
    /\ ret' = get_passwords(passwords, pm.key)
    /\ UNCHANGED <<keyfiles, keysMade, pm, passwords, users, gen, threads, ui>>

\* the value search_password returns for a table
\* search_password treating a failed decryption as an absent record
search_password_silent(tbl, key, website) ==
    LET result == dm_search_password(tbl, website)
        d == decrypt(key, result.row.password)
    IN IF result.found /\ d.exc = "none"
       THEN Return("Website:", <<>>,
                   <<[website |-> result.row.website, email |-> result.row.email,
                      password |-> d.val]>>)
       ELSE Return("Not found", <<>>, <<>>)

search_password(tbl, key, website) ==
    LET result == dm_search_password(tbl, website)
        d == decrypt(key, result.row.password)
    IN IF result.found
       THEN IF d.exc # "none"
            THEN Return(SEARCH_ERROR, <<>>, <<>>)
            ELSE Return("Website:", <<>>,
                        <<[website |-> result.row.website, email |-> result.row.email,
                           password |-> d.val]>>)
       ELSE Return("Not found", <<>>, <<>>)

SearchPassword ==
    \E website \in Sites :
        /\ call' = Call("search_password", website, "", <<>>, "")
        /\ ret' = search_password(passwords, pm.key, website)
        /\ UNCHANGED <<keyfiles, keysMade, pm, passwords, users, gen, threads, ui>>

\* update_password looking the record up before it validates the new password
update_password_lookup_first(website, new_password, iv) ==
    LET v == validate_password_strength(new_password)
        existing_record == dm_search_password(passwords, website)
    IN /\ call' = Call("update_password", website, "", new_password, "")
       /\ IF ~existing_record.found
          THEN /\ ret' = Return(NOT_FOUND, <<>>, <<>>)
               /\ UNCHANGED passwords
          ELSE IF ~v.is_valid
          THEN /\ ret' = Return(TOO_WEAK, v.messages, <<>>)
               /\ UNCHANGED passwords
          ELSE /\ passwords' = dm_update_password(passwords, website,
                                                  encrypt(pm.key, iv, Str(new_password)).val)
               /\ ret' = Return(UPDATED, <<>>, <<>>)
       /\ UNCHANGED <<keyfiles, keysMade, pm, users, gen, threads, ui>>

update_password(website, new_password, iv) ==
    LET v == validate_password_strength(new_password)
        existing_record == dm_search_password(passwords, website)
    IN /\ call' = Call("update_password", website, "", new_password, "")
       /\ IF ~v.is_valid
          THEN /\ ret' = Return(TOO_WEAK, v.messages, <<>>)
               /\ UNCHANGED passwords
          ELSE IF ~existing_record.found
          THEN /\ ret' = Return(NOT_FOUND, <<>>, <<>>)
               /\ UNCHANGED passwords
          ELSE /\ passwords' = dm_update_password(passwords, website,
                                                  encrypt(pm.key, iv, Str(new_password)).val)
               /\ ret' = Return(UPDATED, <<>>, <<>>)
       /\ UNCHANGED <<keyfiles, keysMade, pm, users, gen, threads, ui>>

UpdatePassword ==
    \E website \in Sites, new_password \in Secrets, iv \in IVs :
        update_password(website, new_password, iv)

\* delete_password without the existence check
delete_password_unchecked(website) ==
    /\ call' = Call("delete_password", website, "", <<>>, "")
    /\ passwords' = dm_delete_password(passwords, website)
    /\ ret' = Return(DELETED, <<>>, <<>>)
    /\ UNCHANGED <<keyfiles, keysMade, pm, users, gen, threads, ui>>

delete_password(website) ==
    LET existing_record == dm_search_password(passwords, website)
    IN /\ call' = Call("delete_password", website, "", <<>>, "")
       /\ IF ~existing_record.found
          THEN /\ ret' = Return(NOT_FOUND, <<>>, <<>>)
               /\ UNCHANGED passwords
          ELSE /\ passwords' = dm_delete_password(passwords, website)
               /\ ret' = Return(DELETED, <<>>, <<>>)
       /\ UNCHANGED <<keyfiles, keysMade, pm, users, gen, threads, ui>>

DeletePassword == \E website \in Sites : delete_password(website)

\* the value validate_user_credentials returns, or the exception it raises
validate_user_credentials(tbl, username, password) ==
    LET user_record == get_user_by_username(tbl, username)
        c == checkpw(password, user_record.password)
    IN IF user_record.found
       THEN IF c.exc # "none" THEN Raise(c.exc)
            ELSE Return(IF c.val THEN "True" ELSE "False", <<>>, <<>>)
       ELSE Return("False", <<>>, <<>>)

ValidateUserCredentials ==
    \E username \in Usernames, password \in Secrets :
        /\ call' = Call("validate_user_credentials", <<>>, "", password, username)
        /\ ret' = validate_user_credentials(users, username, password)
        /\ UNCHANGED <<keyfiles, keysMade, pm, passwords, users, gen, threads, ui>>

update_admin_password(new_password, salt, iv) ==
    LET v == validate_password_strength(new_password)
        hashed_password == hashpw(new_password, salt)
        w == dm_update_admin_password(users, pm.dm_key, iv, hashed_password)
    IN /\ call' = Call("update_admin_password", <<>>, "", new_password, "")
       /\ IF ~v.is_valid
          THEN /\ ret' = Return(TOO_WEAK, v.messages, <<>>)
               /\ UNCHANGED users
          ELSE IF w.exc # "none"
          THEN /\ ret' = Raise(w.exc)
               /\ UNCHANGED users
          ELSE /\ users' = w.users
               /\ ret' = Return(ROTATED, <<>>, <<>>)
       /\ UNCHANGED <<keyfiles, keysMade, pm, passwords, gen, threads, ui>>

UpdateAdminPassword ==
    \E new_password \in Secrets, salt \in Salts, iv \in IVs :
        update_admin_password(new_password, salt, iv)

Next ==
    \/ Restart
    \/ SavePassword
    \/ GetPasswords
    \/ SearchPassword
    \/ UpdatePassword
    \/ DeletePassword
    \/ ValidateUserCredentials
    \/ UpdateAdminPassword

Spec == Init /\ [][Next]_vars

-----------------------------------------------------------------------------
(* Faults of the storage: a blob corrupted in the database, and the vault  *)
(* opened again under another key file                                     *)

CorruptBlob ==
    \E i \in 1..Len(passwords) :
        /\ passwords[i].password.kind = "fernet"
        /\ passwords' = [passwords EXCEPT ![i].password.kind = "junk"]
        /\ call' = Call("corrupt", passwords[i].website, "", <<>>, "")
        /\ ret' = Return("None", <<>>, <<>>)
        /\ UNCHANGED <<keyfiles, keysMade, pm, users, gen, threads, ui>>

\* PasswordManager(db_path, key_file) with any key file
Reopen ==
    \E key_file \in KeyFiles, iv1 \in IVs, iv2 \in IVs :
        LET c == construct(keyfiles, keysMade, users, key_file, iv1, iv2)
        IN /\ keyfiles' = c.fs
           /\ keysMade' = c.made
           /\ pm' = c.pm
           /\ users' = c.users
           /\ call' = Call("__init__", <<>>, "", <<>>, "")
           /\ ret' = Return("None", <<>>, <<>>)
           /\ UNCHANGED <<passwords, gen, threads, ui>>

NextFault ==
    \/ SavePassword
    \/ GetPasswords
    \/ SearchPassword
    \/ CorruptBlob
    \/ Reopen

SpecFault == Init /\ [][NextFault]_vars

-----------------------------------------------------------------------------
(* The write statements failing in the database: sqlite3 raises inside the  *)
(* with block (database is locked, disk full, read-only file)               *)

\* with self.database_connection() as conn: a sqlite3.Error raised in the body
\* is caught by the context manager, printed and not raised again; the
\* statement has written nothing and the method returns None
database_connection(tbl, written, error) == IF error THEN tbl ELSE written

\* save_password when the INSERT raises sqlite3.Error
SaveOnStorageError ==
    \E website \in Sites, email \in Emails, password \in Secrets, iv \in IVs :
        LET v == validate_password_strength(password)
        IN /\ call' = Call("save_password", website, email, password, "")
           /\ IF website = <<>> \/ email = "" \/ password = <<>>
              THEN /\ ret' = Return(MISSING, <<>>, <<>>)
                   /\ UNCHANGED passwords
              ELSE IF ~v.is_valid
              THEN /\ ret' = Return(TOO_WEAK, v.messages, <<>>)
                   /\ UNCHANGED passwords
              ELSE /\ passwords' = database_connection(passwords,
                                       dm_save_password(passwords, website, email,
                                                        encrypt(pm.key, iv, Str(password)).val),
                                       TRUE)
                   /\ ret' = Return(SAVED, <<>>, <<>>)
           /\ UNCHANGED <<keyfiles, keysMade, pm, users, gen, threads, ui>>

\* update_password when the UPDATE raises sqlite3.Error
UpdateOnStorageError ==
    \E website \in Sites, new_password \in Secrets, iv \in IVs :
        LET v == validate_password_strength(new_password)
            existing_record == dm_search_password(passwords, website)
        IN /\ call' = Call("update_password", website, "", new_password, "")
           /\ IF ~v.is_valid
              THEN /\ ret' = Return(TOO_WEAK, v.messages, <<>>)
                   /\ UNCHANGED passwords
              ELSE IF ~existing_record.found
              THEN /\ ret' = Return(NOT_FOUND, <<>>, <<>>)
                   /\ UNCHANGED passwords
              ELSE /\ passwords' = database_connection(passwords,
                                       dm_update_password(passwords, website,
                                           encrypt(pm.key, iv, Str(new_password)).val),
                                       TRUE)
                   /\ ret' = Return(UPDATED, <<>>, <<>>)
           /\ UNCHANGED <<keyfiles, keysMade, pm, users, gen, threads, ui>>

\* delete_password when the DELETE raises sqlite3.Error
DeleteOnStorageError ==
    \E website \in Sites :
        LET existing_record == dm_search_password(passwords, website)
        IN /\ call' = Call("delete_password", website, "", <<>>, "")
           /\ IF ~existing_record.found
              THEN /\ ret' = Return(NOT_FOUND, <<>>, <<>>)
                   /\ UNCHANGED passwords
              ELSE /\ passwords' = database_connection(passwords,
                                       dm_delete_password(passwords, website), TRUE)
                   /\ ret' = Return(DELETED, <<>>, <<>>)
           /\ UNCHANGED <<keyfiles, keysMade, pm, users, gen, threads, ui>>

NextStorage ==
    \/ SavePassword
    \/ UpdatePassword
    \/ DeletePassword
    \/ SaveOnStorageError
    \/ UpdateOnStorageError
    \/ DeleteOnStorageError

SpecStorage == Init /\ [][NextStorage]_vars

-----------------------------------------------------------------------------
(* Startups against key files whose content can be damaged in between *)

\* the most keys generated in one run of the model
MaxKeys == 5

\* the content of a key file replaced by bytes that are no Fernet key
CorruptKeyFile ==
    /\ keysMade < MaxKeys
    /\ \E key_file \in KeyFiles :
        /\ keyfiles[key_file] \notin {ABSENT, MALFORMED}
        /\ keyfiles' = [keyfiles EXCEPT ![key_file] = MALFORMED]
        /\ call' = Call("corrupt_key_file", <<>>, "", <<>>, key_file)
    /\ ret' = Return("None", <<>>, <<>>)
    /\ UNCHANGED <<keysMade, pm, passwords, users, gen, threads, ui>>

\* the key a caller hands to the constructor
INJECTED_KEY == 9

\* PasswordManager(db_path, key_file, key=INJECTED_KEY): the first statement is
\* EncryptionManager(key_file=key_file, key=key), and EncryptionManager.__init__
\* takes key_file only, so the call raises TypeError before anything is read,
\* written or assigned
ConstructWithKey ==
    /\ \E key_file \in KeyFiles :
        call' = Call("PasswordManager(key)", <<>>, "", <<>>, key_file)
    /\ ret' = Raise("TypeError")
    /\ UNCHANGED <<keyfiles, keysMade, pm, passwords, users, gen, threads, ui>>

NextKey ==
    \/ Reopen
    \/ CorruptKeyFile
    \/ ConstructWithKey

SpecKey == Init /\ [][NextKey]_vars

-----------------------------------------------------------------------------
(* generate_strong_password *)

MIN_GENERATED == 8

\* the longest password asked for
MaxLength == 8

Lengths == (-1)..MaxLength

\* the characters the random choices are drawn from: one of each class, with a
\* special character of the validator's class and one outside it
Drawn == {"a", "A", "1", "!", "_"}

all_characters == lowercase \o uppercase \o digits \o special

choice(alphabet) == Range(alphabet) \cap Drawn

\* x[i], x[j] = x[j], x[i] on 0-based indices
swap(x, i, j) == [x EXCEPT ![i + 1] = x[j + 1], ![j + 1] = x[i + 1]]

\* the call with the length check off by one: if length < 7
GenStart_from_seven ==
    /\ gen.pc = "idle"
    /\ \E length \in Lengths :
        IF length < MIN_GENERATED - 1
        THEN gen' = [pc |-> "ValueError", length |-> length, password |-> <<>>, i |-> 0]
        ELSE \E l \in choice(lowercase), u \in choice(uppercase), d \in choice(digits),
                s \in choice(special), rest \in [1..(length - 4) -> choice(all_characters)] :
                gen' = [pc |-> "shuffle", length |-> length,
                        password |-> <<l, u, d, s>> \o rest, i |-> length - 1]
    /\ UNCHANGED vaultVars

\* the call with random.choices(all_characters, k=length - 3)
GenStart_one_more ==
    /\ gen.pc = "idle"
    /\ \E length \in Lengths :
        IF length < MIN_GENERATED
        THEN gen' = [pc |-> "ValueError", length |-> length, password |-> <<>>, i |-> 0]
        ELSE \E l \in choice(lowercase), u \in choice(uppercase), d \in choice(digits),
                s \in choice(special), rest \in [1..(length - 3) -> choice(all_characters)] :
                gen' = [pc |-> "shuffle", length |-> length,
                        password |-> <<l, u, d, s>> \o rest, i |-> length]
    /\ UNCHANGED vaultVars

\* the call up to random.shuffle: the length check, one character of each class
\* and random.choices(all_characters, k=length - 4)
GenStart ==
    /\ gen.pc = "idle"
    /\ \E length \in Lengths :
        IF length < MIN_GENERATED
        THEN gen' = [pc |-> "ValueError", length |-> length, password |-> <<>>, i |-> 0]
        ELSE \E l \in choice(lowercase), u \in choice(uppercase), d \in choice(digits),
                s \in choice(special), rest \in [1..(length - 4) -> choice(all_characters)] :
                gen' = [pc |-> "shuffle", length |-> length,
                        password |-> <<l, u, d, s>> \o rest, i |-> length - 1]
    /\ UNCHANGED vaultVars

\* random.shuffle: for i in reversed(range(1, len(x))): j = randbelow(i + 1); swap;
\* after the last swap the characters are joined and returned
GenShuffle ==
    /\ gen.pc = "shuffle"
    /\ \E j \in 0..gen.i :
        gen' = [gen EXCEPT !.password = swap(gen.password, gen.i, j),
                           !.i = gen.i - 1,
                           !.pc = IF gen.i - 1 < 1 THEN "return" ELSE "shuffle"]
    /\ UNCHANGED vaultVars

NextGen == GenStart \/ GenShuffle

InitGen == Init /\ pm.key_file = DEFAULT_KEY_FILE

SpecGen == InitGen /\ [][NextGen]_vars

-----------------------------------------------------------------------------
(* PasswordValidator.validate_password_strength called on its own *)

\* the longest candidate validated
MaxCandidate == 8

\* the candidates of n characters
Candidates(n) == [1..n -> Drawn]

PENDING == "pending"

InitValidate ==
    /\ \E iv1 \in IVs, iv2 \in IVs :
        LET c == construct([f \in KeyFiles |-> ABSENT], 0, <<>>, DEFAULT_KEY_FILE, iv1, iv2)
        IN /\ keyfiles = c.fs
           /\ keysMade = c.made
           /\ pm = c.pm
           /\ users = c.users
    /\ passwords = <<>>
    /\ gen = GenIdle /\ threads = NoThreads /\ ui = NoUI
    /\ ret = Return(PENDING, <<>>, <<>>)
    /\ \E n \in 0..MaxCandidate : \E candidate \in Candidates(n) :
        call = Call("validate_password_strength", <<>>, "", candidate, "")

\* is_valid, messages = PasswordValidator.validate_password_strength(password)
ValidatePasswordStrength ==
    /\ call.op = "validate_password_strength"
    /\ ret.text = PENDING
    /\ LET v == validate_password_strength(call.password)
       IN ret' = Return(IF v.is_valid THEN "True" ELSE "False", v.messages, <<>>)
    /\ UNCHANGED <<keyfiles, keysMade, pm, passwords, users, call, gen, threads, ui>>

NextValidate == ValidatePasswordStrength

SpecValidate == InitValidate /\ [][NextValidate]_vars

-----------------------------------------------------------------------------
(* EncryptionManager.encrypt and decrypt called on their own: a plaintext is *)
(* encrypted, the token may be altered or the manager built again on another *)
(* key file, and the token is decrypted.  call.password keeps the plaintext  *)
(* that encrypt was given.                                                   *)

\* the longest plaintext encrypted
MaxPlain == 3

PlainChars == {"a", E_ACUTE, SURROGATE}

Plaintexts(n) == [1..n -> PlainChars]

\* the bytes an altered token can hold in place of one of its own
TamperBytes == {"a", "z", "0xC3"}

InitCrypt ==
    /\ \E iv1 \in IVs, iv2 \in IVs :
        LET c == construct([f \in KeyFiles |-> ABSENT], 0, <<>>, DEFAULT_KEY_FILE, iv1, iv2)
        IN /\ keyfiles = c.fs
           /\ keysMade = c.made
           /\ pm = c.pm
           /\ users = c.users
    /\ passwords = <<>>
    /\ gen = GenIdle /\ threads = NoThreads /\ ui = NoUI
    /\ ret = Return(PENDING, <<>>, <<>>)
    /\ \E n \in 0..MaxPlain : \E plaintext \in Plaintexts(n) :
        call = Call("encrypt", <<>>, "", plaintext, "")

\* token = encryption_manager.encrypt(plaintext)
Encrypt ==
    /\ call.op = "encrypt"
    /\ ret.text = PENDING
    /\ \E iv \in IVs :
        LET r == encrypt(pm.key, iv, Str(call.password))
        IN ret' = IF r.exc = "none" THEN Return("token", <<>>, <<r.val>>) ELSE Raise(r.exc)
    /\ UNCHANGED <<keyfiles, keysMade, pm, passwords, users, call, gen, threads, ui>>

\* an intact token altered in one place: a byte of the ciphertext, the
\* initialisation vector, the HMAC, or a character that breaks its encoding
Tamper ==
    /\ ret.text = "token"
    /\ LET token == ret.rows[1]
       IN /\ token.kind = "fernet"
          /\ token.mac = hmac(token.iv, token.s)
          /\ \E altered \in
                 {[token EXCEPT !.s[i] = b] : i \in 1..Len(token.s), b \in TamperBytes}
                 \cup {[token EXCEPT !.iv = token.iv + 1],
                       [token EXCEPT !.mac = hmac(token.iv + 1, token.s)],
                       [token EXCEPT !.kind = "junk"]} :
                /\ altered # token
                /\ ret' = Return("token", <<>>, <<altered>>)
    /\ call' = [call EXCEPT !.op = "tamper"]
    /\ UNCHANGED <<keyfiles, keysMade, pm, passwords, users, gen, threads, ui>>

\* EncryptionManager(key_file) built again, on either key file
Rekey ==
    /\ ret.text = "token"
    /\ \E key_file \in KeyFiles :
        LET k == load_or_generate_key(keyfiles, keysMade, key_file)
        IN /\ keyfiles' = k.fs
           /\ keysMade' = k.made
           /\ pm' = [pm EXCEPT !.key_file = key_file, !.key = k.key]
    /\ call' = [call EXCEPT !.op = "EncryptionManager"]
    /\ UNCHANGED <<passwords, users, ret, gen, threads, ui>>

\* plaintext = encryption_manager.decrypt(token)
Decrypt ==
    /\ ret.text = "token"
    /\ LET d == decrypt(pm.key, ret.rows[1])
       IN ret' = IF d.exc = "none" THEN Return("plaintext", <<>>, <<d.val>>) ELSE Raise(d.exc)
    /\ call' = [call EXCEPT !.op = "decrypt"]
    /\ UNCHANGED <<keyfiles, keysMade, pm, passwords, users, gen, threads, ui>>

NextCrypt ==
    \/ Encrypt
    \/ Tamper
    \/ Rekey
    \/ Decrypt

SpecCrypt == InitCrypt /\ [][NextCrypt]_vars

-----------------------------------------------------------------------------
(* Callers that run save_password, update_password and delete_password on    *)
(* one site at the same time.  Every DataManager method opens a connection   *)
(* of its own, runs one statement and commits, so a caller's existence check *)
(* (search_password) and its write are two separate steps on the table.      *)
(* threads.initial keeps the table the callers started from.                 *)

\* how many callers run at once
Callers == 2

TheSite == <<"e","x">>

ConcurrentOps == {"save_password", "update_password", "delete_password"}

Caller(op, password) ==
    [op |-> op, password |-> password,
     pc |-> IF op = "save_password" THEN "write" ELSE "check", result |-> ""]

InitConcurrent ==
    /\ \E iv1 \in IVs, iv2 \in IVs :
        LET c == construct([f \in KeyFiles |-> ABSENT], 0, <<>>, DEFAULT_KEY_FILE, iv1, iv2)
        IN /\ keyfiles = c.fs
           /\ keysMade = c.made
           /\ pm = c.pm
           /\ users = c.users
    /\ call = Call("__init__", <<>>, "", <<>>, "")
    /\ ret = Return("None", <<>>, <<>>)
    /\ gen = GenIdle
    /\ ui = NoUI
    /\ \E tbl \in {<<>>, dm_save_password(<<>>, TheSite, "u1",
                                          encrypt(pm.key, 1, Str(StrongA)).val)} :
        /\ passwords = tbl
        /\ \E ops \in [1..Callers -> ConcurrentOps], pws \in [1..Callers -> {StrongA, StrongB}] :
            threads = [initial |-> tbl,
                       callers |-> [t \in 1..Callers |-> Caller(ops[t], pws[t])]]

Finish(t, result) ==
    threads' = [threads EXCEPT !.callers[t].pc = "done", !.callers[t].result = result]

\* existing_record = self.data_manager.search_password(website) of
\* update_password and delete_password
ExistenceCheck(t) ==
    /\ threads.callers[t].pc = "check"
    /\ IF dm_search_password(passwords, TheSite).found
       THEN threads' = [threads EXCEPT !.callers[t].pc = "write"]
       ELSE Finish(t, NOT_FOUND)
    /\ UNCHANGED <<keyfiles, keysMade, pm, passwords, users, call, ret, gen, ui>>

\* self.data_manager.save_password(website, email, encrypted_password)
SaveWrite(t) ==
    /\ threads.callers[t].pc = "write"
    /\ threads.callers[t].op = "save_password"
    /\ passwords' = dm_save_password(passwords, TheSite, "u1",
                                     encrypt(pm.key, 1, Str(threads.callers[t].password)).val)
    /\ Finish(t, SAVED)
    /\ UNCHANGED <<keyfiles, keysMade, pm, users, call, ret, gen, ui>>

\* self.data_manager.update_password(website, encrypted_password)
UpdateWrite(t) ==
    /\ threads.callers[t].pc = "write"
    /\ threads.callers[t].op = "update_password"
    /\ passwords' = dm_update_password(passwords, TheSite,
                                       encrypt(pm.key, 1, Str(threads.callers[t].password)).val)
    /\ Finish(t, UPDATED)
    /\ UNCHANGED <<keyfiles, keysMade, pm, users, call, ret, gen, ui>>

\* self.data_manager.delete_password(website)
DeleteWrite(t) ==
    /\ threads.callers[t].pc = "write"
    /\ threads.callers[t].op = "delete_password"
    /\ passwords' = dm_delete_password(passwords, TheSite)
    /\ Finish(t, DELETED)
    /\ UNCHANGED <<keyfiles, keysMade, pm, users, call, ret, gen, ui>>

NextConcurrent ==
    \E t \in 1..Callers :
        \/ ExistenceCheck(t)
        \/ SaveWrite(t)
        \/ UpdateWrite(t)
        \/ DeleteWrite(t)

SpecConcurrent == InitConcurrent /\ [][NextConcurrent]_vars

-----------------------------------------------------------------------------
(* PasswordManagerUI: ui.screen is the screen the window shows,              *)
(* ui.current_screen the attribute change_language reads, ui.configured the  *)
(* content of data/config.ini, ui.entries what the last callback read from   *)
(* the password fields of its screen.  The list and update windows are       *)
(* children of the main window, open only while it shows the main screen.    *)

Languages == {"English", "Polish"}

\* the window after a callback has read its password fields
reads(u, current_password, new_password, confirm_password) ==
    [u EXCEPT !.entries = [current |-> current_password, new |-> new_password,
                           confirm |-> confirm_password]]

\* the window after a callback that reads no password field
reads_nothing(u) == [u EXCEPT !.entries = NoEntries]

show_first_run_screen(u) ==
    [u EXCEPT !.screen = "first_run", !.current_screen = "first_run"]

show_login_screen(u) ==
    [u EXCEPT !.screen = "login", !.current_screen = "login"]

\* show_main_screen and show_change_user_password_screen leave current_screen
show_main_screen(u) == [u EXCEPT !.screen = "main"]

show_change_user_password_screen(u) ==
    [u EXCEPT !.screen = "change_password"]

change_language(u, language) ==
    LET v == [u EXCEPT !.language = language]
    IN IF v.current_screen = "first_run" THEN show_first_run_screen(v)
       ELSE IF v.current_screen = "login" THEN show_login_screen(v)
       ELSE show_main_screen(v)

\* the admin record a data directory can hold when the window is started: the
\* placeholder written by ensure_admin_user, or a bcrypt hash
HashedAdmin(tbl) ==
    [i \in 1..Len(tbl) |->
        IF tbl[i].username = "admin"
        THEN [tbl[i] EXCEPT !.password =
                 [kind |-> "bcrypt", key |-> 0, iv |-> 0, s |-> StrongA, salt |-> 1,
                  mac |-> <<0, <<>>>>]]
        ELSE tbl[i]]

\* PasswordManagerUI.__init__ on a data directory that is fresh or was left by
\* an earlier run
InitUI ==
    /\ \E iv1 \in IVs, iv2 \in IVs, hashed \in BOOLEAN :
        LET c == construct([f \in KeyFiles |-> ABSENT], 0, <<>>, DEFAULT_KEY_FILE, iv1, iv2)
        IN /\ keyfiles = c.fs
           /\ keysMade = c.made
           /\ pm = c.pm
           /\ users = IF hashed THEN HashedAdmin(c.users) ELSE c.users
    /\ passwords = <<>>
    /\ call = Call("__init__", <<>>, "", <<>>, "")
    /\ ret = Return("None", <<>>, <<>>)
    /\ gen = GenIdle
    /\ threads = NoThreads
    /\ \E configured \in BOOLEAN :
        ui = IF configured
             THEN show_login_screen([NoUI EXCEPT !.configured = TRUE])
             ELSE show_first_run_screen(NoUI)

\* on the first-run and the login screen: the language menu
ChangeLanguage ==
    /\ ui.screen \in {"first_run", "login"}
    /\ \E language \in Languages : ui' = change_language(reads_nothing(ui), language)
    /\ call' = Call("change_language", <<>>, "", <<>>, "")
    /\ ret' = Return("None", <<>>, <<>>)
    /\ UNCHANGED <<keyfiles, keysMade, pm, passwords, users, gen, threads>>

\* save_master_password going on to the login screen although the call of
\* PasswordManager.save_master_password raised
save_master_password_proceeds(master_password, confirm_password, salt, iv) ==
    LET read == reads(ui, <<>>, master_password, confirm_password)
        w == dm_update_admin_password(users, pm.dm_key, iv, hashpw(master_password, salt))
    IN /\ call' = Call("save_master_password", <<>>, "", master_password, "admin")
       /\ IF master_password # confirm_password
          THEN ret' = Return("password_mismatch", <<>>, <<>>) /\ ui' = read /\ UNCHANGED users
          ELSE /\ users' = w.users
               /\ ret' = IF w.exc # "none" THEN Raise(w.exc)
                         ELSE Return("password_saved", <<>>, <<>>)
               /\ ui' = show_login_screen(read)
       /\ UNCHANGED <<keyfiles, keysMade, pm, passwords, gen, threads>>

\* on the first-run screen: save_master_password, whose call of
\* PasswordManager.save_master_password hands the bcrypt bytes to
\* DataManager.update_admin_password; mark_as_configured and show_login_screen
\* follow it
save_master_password(master_password, confirm_password, salt, iv) ==
    LET read == reads(ui, <<>>, master_password, confirm_password)
        v == validate_password_strength(master_password)
        w == dm_update_admin_password(users, pm.dm_key, iv, hashpw(master_password, salt))
    IN /\ call' = Call("save_master_password", <<>>, "", master_password, "admin")
       /\ IF master_password # confirm_password
          THEN ret' = Return("password_mismatch", <<>>, <<>>) /\ ui' = read /\ UNCHANGED users
          ELSE IF ~v.is_valid
          THEN ret' = Return("weak_password", v.messages, <<>>)
               /\ ui' = read /\ UNCHANGED users
          ELSE IF w.exc # "none"
          THEN ret' = Raise(w.exc) /\ ui' = read /\ UNCHANGED users
          ELSE /\ users' = w.users
               /\ ret' = Return("password_saved", <<>>, <<>>)
               /\ ui' = show_login_screen([read EXCEPT !.configured = TRUE])
       /\ UNCHANGED <<keyfiles, keysMade, pm, passwords, gen, threads>>

SaveMasterPassword ==
    /\ ui.screen = "first_run"
    /\ \E master_password \in Secrets, confirm_password \in Secrets, salt \in Salts, iv \in IVs :
        save_master_password(master_password, confirm_password, salt, iv)

\* validate_login showing the main screen whatever the check returned
validate_login_unchecked(username, password) ==
    /\ call' = Call("validate_login", <<>>, "", password, username)
    /\ ret' = validate_user_credentials(users, username, password)
    /\ ui' = show_main_screen(reads_nothing(ui))
    /\ UNCHANGED <<keyfiles, keysMade, pm, passwords, users, gen, threads>>

validate_login(username, password) ==
    LET r == validate_user_credentials(users, username, password)
    IN /\ call' = Call("validate_login", <<>>, "", password, username)
       /\ ret' = r
       /\ ui' = IF r.exc = "none" /\ r.text = "True"
                THEN show_main_screen(reads_nothing(ui)) ELSE reads_nothing(ui)
       /\ UNCHANGED <<keyfiles, keysMade, pm, passwords, users, gen, threads>>

ValidateLogin ==
    /\ ui.screen = "login"
    /\ \E username \in Usernames, password \in Secrets : validate_login(username, password)

\* on the login screen: the change-password button
ShowChangeUserPasswordScreen ==
    /\ ui.screen = "login"
    /\ ui' = show_change_user_password_screen(reads_nothing(ui))
    /\ call' = Call("show_change_user_password_screen", <<>>, "", <<>>, "")
    /\ ret' = Return("None", <<>>, <<>>)
    /\ UNCHANGED <<keyfiles, keysMade, pm, passwords, users, gen, threads>>

\* save_new_password without the check of the current password
save_new_password_unchecked(current_password, new_password, confirm_password, salt, iv) ==
    LET read == reads(ui, current_password, new_password, confirm_password)
        w == dm_update_admin_password(users, pm.dm_key, iv, hashpw(new_password, salt))
    IN /\ call' = Call("save_new_password", <<>>, "", new_password, "admin")
       /\ IF w.exc # "none"
          THEN ret' = Raise(w.exc) /\ ui' = read /\ UNCHANGED users
          ELSE /\ users' = w.users
               /\ ret' = Return(ROTATED, <<>>, <<>>)
               /\ ui' = show_login_screen(read)
       /\ UNCHANGED <<keyfiles, keysMade, pm, passwords, gen, threads>>

\* on the change-password screen: save_new_password, whose checks come before
\* the call of PasswordManager.update_admin_password
save_new_password(current_password, new_password, confirm_password, salt, iv) ==
    LET read == reads(ui, current_password, new_password, confirm_password)
        c == validate_user_credentials(users, "admin", current_password)
        v == validate_password_strength(new_password)
        w == dm_update_admin_password(users, pm.dm_key, iv, hashpw(new_password, salt))
    IN /\ call' = Call("save_new_password", <<>>, "", new_password, "admin")
       /\ IF c.exc # "none"
          THEN ret' = c /\ ui' = read /\ UNCHANGED users
          ELSE IF c.text # "True"
          THEN ret' = Return("current_password_incorrect", <<>>, <<>>)
               /\ ui' = read /\ UNCHANGED users
          ELSE IF new_password # confirm_password
          THEN ret' = Return("passwords_do_not_match", <<>>, <<>>)
               /\ ui' = read /\ UNCHANGED users
          ELSE IF ~v.is_valid
          THEN ret' = Return("password_too_weak", v.messages, <<>>)
               /\ ui' = read /\ UNCHANGED users
          ELSE IF w.exc # "none"
          THEN ret' = Raise(w.exc) /\ ui' = read /\ UNCHANGED users
          ELSE /\ users' = w.users
               /\ ret' = Return(ROTATED, <<>>, <<>>)
               /\ ui' = show_login_screen(read)
       /\ UNCHANGED <<keyfiles, keysMade, pm, passwords, gen, threads>>

SaveNewPassword ==
    /\ ui.screen = "change_password"
    /\ \E current_password \in Secrets, new_password \in Secrets, confirm_password \in Secrets,
          salt \in Salts, iv \in IVs :
        save_new_password(current_password, new_password, confirm_password, salt, iv)

\* on the change-password screen: the Back button
Back ==
    /\ ui.screen = "change_password"
    /\ ui' = show_login_screen(reads_nothing(ui))
    /\ call' = Call("back", <<>>, "", <<>>, "")
    /\ ret' = Return("None", <<>>, <<>>)
    /\ UNCHANGED <<keyfiles, keysMade, pm, passwords, users, gen, threads>>

\* on the main screen: logout_user clears the window, the list and update
\* windows with it, and shows the login screen
LogoutUser ==
    /\ ui.screen = "main"
    /\ ui' = show_login_screen(reads_nothing(ui))
    /\ call' = Call("logout_user", <<>>, "", <<>>, "")
    /\ ret' = Return("None", <<>>, <<>>)
    /\ UNCHANGED <<keyfiles, keysMade, pm, passwords, users, gen, threads>>

\* what can be typed into the website field of the main screen
UISites == {<<>>, <<"e","x">>}

\* on the main screen: the save button
UISavePassword ==
    /\ ui.screen = "main"
    /\ \E website \in UISites, email \in Emails, password \in Secrets, iv \in IVs :
        IF website = <<>> \/ email = "" \/ password = <<>>
        THEN /\ call' = Call("fill_all_fields", website, email, password, "")
             /\ ret' = Return("fill_all_fields", <<>>, <<>>)
             /\ UNCHANGED <<keyfiles, keysMade, pm, passwords, users, gen, threads, ui>>
        ELSE save_password(website, email, password, iv)

\* on the main screen: the list button fetches the records for the list window
ShowPasswordListScreen ==
    /\ ui.screen = "main"
    /\ GetPasswords

\* in the list window: edit a selected row, then the update button
UIUpdatePassword ==
    /\ ui.screen = "main"
    /\ \E i \in 1..Len(passwords), new_password \in Secrets, confirm_password \in Secrets,
          iv \in IVs :
        IF new_password # confirm_password
        THEN /\ call' = Call("passwords_do_not_match", passwords[i].website, "",
                             new_password, "")
             /\ ret' = Return("passwords_do_not_match", <<>>, <<>>)
             /\ UNCHANGED <<keyfiles, keysMade, pm, passwords, users, gen, threads, ui>>
        ELSE IF ~validate_password_strength(new_password).is_valid
        THEN /\ call' = Call("password_too_weak", passwords[i].website, "", new_password, "")
             /\ ret' = Return("password_too_weak",
                              validate_password_strength(new_password).messages, <<>>)
             /\ UNCHANGED <<keyfiles, keysMade, pm, passwords, users, gen, threads, ui>>
        ELSE update_password(passwords[i].website, new_password, iv)

\* in the list window: delete a selected row, confirmed
UIDeletePassword ==
    /\ ui.screen = "main"
    /\ \E i \in 1..Len(passwords) : delete_password(passwords[i].website)

NextUI ==
    \/ ChangeLanguage
    \/ SaveMasterPassword
    \/ ValidateLogin
    \/ ShowChangeUserPasswordScreen
    \/ SaveNewPassword
    \/ Back
    \/ LogoutUser
    \/ UISavePassword
    \/ ShowPasswordListScreen
    \/ UIUpdatePassword
    \/ UIDeletePassword

SpecUI == InitUI /\ [][NextUI]_vars

-----------------------------------------------------------------------------
(* Properties *)

Valid(password) == validate_password_strength(password).is_valid

\* C1: the passwords table holds at most one row per case-folded site name: a
\* save for a site that already has a row, under any letter case, overwrites it.
C1_OneRecordPerSite ==
    \A i \in 1..Len(passwords), j \in 1..Len(passwords) :
        lower(passwords[i].website) = lower(passwords[j].website) => i = j

\* C2: right after a successful save_password(s, e, p), search_password on every
\* letter-case variant of s returns the identifier and secret of that save, also
\* when an earlier save already stored a record for the site.
C2_FindReturnsLaterSave ==
    (call.op = "save_password" /\ ret.text = SAVED) =>
        \A w \in Sites :
            lower(w) = lower(call.website) =>
                LET r == search_password(passwords, pm.key, w)
                IN /\ r.text = "Website:"
                   /\ r.rows[1].email = call.email
                   /\ r.rows[1].password = call.password

\* C3: update_admin_password(p) with a strength-valid p reports success, and from
\* then on validate_user_credentials("admin", p) is true and
\* validate_user_credentials("admin", q) is false for every q # p.
C3_RotatedPasswordLogsIn ==
    (call.op = "update_admin_password" /\ Valid(call.password)) =>
        /\ ret = Return(ROTATED, <<>>, <<>>)
        /\ validate_user_credentials(users, "admin", call.password) = Return("True", <<>>, <<>>)
        /\ \A q \in Secrets \ {call.password} :
               validate_user_credentials(users, "admin", q) = Return("False", <<>>, <<>>)

\* C4: for every length >= 8 and every outcome of the random choices, the
\* password generate_strong_password returns passes validate_password_strength
\* with no messages.
C4_GeneratedPasses ==
    gen.pc = "return" =>
        validate_password_strength(gen.password) = [is_valid |-> TRUE, messages |-> <<>>]

Undecryptable(tbl, key) == \E i \in 1..Len(tbl) : decrypt(key, tbl[i].password).exc # "none"

\* C5: when a stored record cannot be decrypted (corrupted blob or wrong key),
\* get_passwords fails with an error; it returns no list, empty or partial.
C5_ListFailsOnUndecryptable ==
    (call.op = "get_passwords" /\ Undecryptable(passwords, pm.key)) => ret.exc # "none"

\* C6: every stored record's secret decrypts to a plaintext that passes
\* validate_password_strength.
C6_StoredSecretsPassGate ==
    \A i \in 1..Len(passwords) :
        LET d == decrypt(pm.key, passwords[i].password)
        IN d.exc = "none" /\ Valid(d.val)

C6_Witness ==
    /\ call.op = "update_password"
    /\ ret.text = UPDATED
    /\ Len(passwords) = MaxRows

GatedOps == {"save_password", "update_password", "update_admin_password"}

WeakOutcome(c, r) == r = Return(TOO_WEAK, validate_password_strength(c.password).messages, <<>>)

\* C7 as claimed: every save_password, update_password or update_admin_password
\* called with a secret that fails validation reports the validation error with
\* its messages and leaves both tables as they were.
C7_WeakAlwaysValidationError ==
    [][(call'.op \in GatedOps /\ ~Valid(call'.password)) =>
            (WeakOutcome(call', ret') /\ passwords' = passwords /\ users' = users)]_vars

\* C7 amended: the same for update_password and update_admin_password, and for
\* save_password when site, identifier and secret are all non-empty (an empty
\* field is reported as the missing-field error before the strength check).
C7_WeakReportedUnlessFieldMissing ==
    [][(/\ call'.op \in GatedOps
        /\ ~Valid(call'.password)
        /\ call'.op = "save_password" =>
               (call'.website # <<>> /\ call'.email # "" /\ call'.password # <<>>)) =>
            (WeakOutcome(call', ret') /\ passwords' = passwords /\ users' = users)]_vars

C7_Witness ==
    /\ call.op = "save_password"
    /\ ret.text = TOO_WEAK
    /\ Len(ret.messages) >= 2
    /\ Len(passwords) > 0

\* C8: update_password on a site that has no record reports the not-found error
\* for every new secret, weak or strong.
C8_MissingSiteNotFound ==
    (call.op = "update_password" /\ ~dm_search_password(passwords, call.website).found) =>
        ret = Return(NOT_FOUND, <<>>, <<>>)

C10_LoginNeverRaises ==
    call.op = "validate_user_credentials" =>
        /\ ret.exc = "none"
        /\ ret.text \in {"True", "False"}
        /\ (get_user_by_username(users, "admin").password.kind # "bcrypt" => ret.text = "False")

Entry(c) == [website |-> c.website, email |-> c.email, password |-> c.password]

Listed(tbl, key) == get_passwords(tbl, key).rows

\* C11: the list of an empty vault is empty, and every successful save_password
\* on a site that has no record yet adds exactly one entry to what get_passwords
\* returns, equal to the (site, identifier, plaintext secret) saved, and leaves
\* the entries already listed as they were.
C11_ListHoldsWhatWasSaved ==
    /\ (passwords = <<>> => Listed(passwords, pm.key) = <<>>)
    /\ [][(/\ call'.op = "save_password"
           /\ ret'.text = SAVED
           /\ ~dm_search_password(passwords, call'.website).found) =>
                Listed(passwords', pm'.key) = Append(Listed(passwords, pm.key), Entry(call'))]_vars

C11_Witness ==
    /\ call.op = "get_passwords"
    /\ Len(ret.rows) = 2
    /\ lower(ret.rows[1].website) # lower(ret.rows[2].website)
    /\ \A i \in 1..2 : ret.rows[i].password \in {StrongA, StrongB}

SameSite(a, b) == lower(a) = lower(b)

\* C12: a successful update_password(site, new_secret) changes only the secret of
\* the rows of that case-folded site: search_password(site) then returns
\* new_secret under the site name and identifier it returned before, every row
\* keeps its site name and identifier, the rows of other sites and the users
\* table are unchanged.
C12_UpdateChangesOnlyTheSecret ==
    [][(call'.op = "update_password" /\ ret'.text = UPDATED) =>
        LET before == search_password(passwords, pm.key, call'.website)
            after == search_password(passwords', pm'.key, call'.website)
        IN /\ before.text = "Website:"
           /\ after.text = "Website:"
           /\ after.rows[1].password = call'.password
           /\ after.rows[1].website = before.rows[1].website
           /\ after.rows[1].email = before.rows[1].email
           /\ Len(passwords') = Len(passwords)
           /\ \A i \in 1..Len(passwords) :
                /\ passwords'[i].website = passwords[i].website
                /\ passwords'[i].email = passwords[i].email
                /\ ~SameSite(passwords[i].website, call'.website) => passwords'[i] = passwords[i]
           /\ users' = users]_vars

C12_Witness ==
    /\ call.op = "update_password"
    /\ ret.text = UPDATED
    /\ \E i \in 1..Len(passwords) : ~SameSite(passwords[i].website, call.website)
    /\ \E i \in 1..Len(passwords) :
          /\ SameSite(passwords[i].website, call.website)
          /\ decrypt(pm.key, passwords[i].password).val = call.password

C14_DeleteMissingChangesNothing ==
    [][(call'.op = "delete_password" /\ ~dm_search_password(passwords, call'.website).found) =>
        /\ ret' = Return(NOT_FOUND, <<>>, <<>>)
        /\ passwords' = passwords
        /\ users' = users
        /\ get_passwords(passwords', pm'.key) = get_passwords(passwords, pm.key)]_vars

C14_Witness ==
    /\ call.op = "delete_password"
    /\ ret.text = NOT_FOUND
    /\ Len(passwords) > 0

C16_EmptyFieldRejected ==
    [][(/\ call'.op = "save_password"
        /\ (call'.website = <<>> \/ call'.email = "" \/ call'.password = <<>>)) =>
            /\ ret' = Return(MISSING, <<>>, <<>>)
            /\ passwords' = passwords
            /\ users' = users]_vars

C16_Witness ==
    /\ call.op = "save_password"
    /\ call.website # <<>>
    /\ call.email = ""
    /\ call.password \in {StrongA, StrongB}
    /\ ret.text = MISSING
    /\ Len(passwords) > 0

\* C17: when the row that search_password fetches for a site (the first row of
\* that folded site) holds a blob that cannot be decrypted, a corrupted one or
\* one written under another key, the result is the search-error message, which
\* is neither a record nor "Not found".
C17_FindReportsDecryptionFailure ==
    call.op = "search_password" =>
        LET hits == {i \in 1..Len(passwords) : SameSite(passwords[i].website, call.website)}
        IN hits # {} =>
            LET first == CHOOSE i \in hits : \A j \in hits : i <= j
            IN decrypt(pm.key, passwords[first].password).exc # "none" =>
                  /\ ret = Return(SEARCH_ERROR, <<>>, <<>>)
                  /\ ret.text # "Not found"
                  /\ ret.rows = <<>>

C17_Witness ==
    /\ call.op = "search_password"
    /\ ret.text = SEARCH_ERROR
    /\ \E i \in 1..Len(passwords) :
          /\ SameSite(passwords[i].website, call.website)
          /\ passwords[i].password.kind = "fernet"
          /\ passwords[i].password.key # pm.key

Rank(message) ==
    CASE message = MSG_LENGTH -> 1
      [] message = MSG_CASE -> 2
      [] message = MSG_DIGIT -> 3
      [] message = MSG_SPECIAL -> 4
      [] OTHER -> 0

\* C18: validate_password_strength checks its four rules independently: the
\* length message is among the reasons exactly when the candidate has fewer than
\* 8 characters, the case message exactly when it lacks a lowercase or an
\* uppercase letter, the digit message exactly when it has no digit, the special
\* message exactly when it has no character of the special set; the reasons are
\* in rule order without repetition, and ok is true exactly when there are none.
C18_RulesCheckedIndependently ==
    (call.op = "validate_password_strength" /\ ret.text # PENDING) =>
        LET chars == {call.password[i] : i \in 1..Len(call.password)}
            reasons == {ret.messages[i] : i \in 1..Len(ret.messages)}
        IN /\ (MSG_LENGTH \in reasons) <=> (Len(call.password) < 8)
           /\ (MSG_CASE \in reasons) <=>
                  ~(chars \cap LowercaseLetters # {} /\ chars \cap UppercaseLetters # {})
           /\ (MSG_DIGIT \in reasons) <=> (chars \cap Digits = {})
           /\ (MSG_SPECIAL \in reasons) <=> (chars \cap SPECIAL_RE = {})
           /\ \A i \in 1..Len(ret.messages) : Rank(ret.messages[i]) > 0
           /\ \A i, j \in 1..Len(ret.messages) :
                  i < j => Rank(ret.messages[i]) < Rank(ret.messages[j])
           /\ (ret.text = "True") <=> (ret.messages = <<>>)
           /\ ret.text \in {"True", "False"}

C18_Witness ==
    /\ call.op = "validate_password_strength"
    /\ Len(call.password) = 7
    /\ ret.text = "False"
    /\ ret.messages = <<MSG_LENGTH, MSG_DIGIT, MSG_SPECIAL>>

\* C19: generate_strong_password(length) raises ValueError for every length
\* below 8, and has produced no character when it does.
C19_ShortLengthRejected ==
    (gen.pc # "idle" /\ gen.length < 8) =>
        (gen.pc = "ValueError" /\ gen.password = <<>>)

C19_Witness ==
    /\ gen.pc = "ValueError"
    /\ gen.length = 7
    /\ gen.password = <<>>

\* C20: for every length of 8 or more, generate_strong_password(length) does
\* not raise, and the characters it holds, before and after shuffling and when
\* it returns, are exactly length many.
C20_GeneratedHasLength ==
    (gen.pc # "idle" /\ gen.length >= 8) =>
        (gen.pc \in {"shuffle", "return"} /\ Len(gen.password) = gen.length)

C20_Witness ==
    /\ gen.pc = "return"
    /\ gen.length = MaxLength
    /\ Len(gen.password) = MaxLength
    /\ gen.password[1] = "_"

\* C21: for every string s and a fixed key, encrypt(s) returns a token and
\* decrypt of that token returns s.
C21_RoundTripEveryString ==
    (call.op = "encrypt" /\ ret.text # PENDING) =>
        /\ ret.exc = "none"
        /\ decrypt(pm.key, ret.rows[1]) = [exc |-> "none", val |-> call.password]

\* C21 as the code has it: the round trip holds for every string that UTF-8 can
\* encode, of one-byte and of two-byte characters alike; for a string holding a
\* lone surrogate encrypt raises UnicodeEncodeError and produces no token.
C21_RoundTripEncodable ==
    (call.op = "encrypt" /\ ret.text # PENDING) =>
        IF \E i \in 1..Len(call.password) : call.password[i] = SURROGATE
        THEN ret = Raise("UnicodeEncodeError")
        ELSE /\ ret.text = "token"
             /\ decrypt(pm.key, ret.rows[1]) = [exc |-> "none", val |-> call.password]

C21_Witness ==
    /\ call.op = "encrypt"
    /\ ret.text = "token"
    /\ Len(call.password) = MaxPlain
    /\ \E i \in 1..MaxPlain : call.password[i] = E_ACUTE
    /\ \E i \in 1..MaxPlain : call.password[i] = "a"
    /\ Len(ret.rows[1].s) > MaxPlain
    /\ decrypt(pm.key, ret.rows[1]).val = call.password

Loaded(key_file) == {key_file, DEFAULT_KEY_FILE}

\* C23: at every startup a key is generated for a loaded path exactly when the
\* file at that path is absent; a file that exists is never rewritten, and its
\* content is the key the startup uses.
C23_KeyGeneratedOnlyWhenAbsent ==
    [][call'.op = "__init__" =>
        /\ \A f \in KeyFiles : keyfiles[f] # ABSENT => keyfiles'[f] = keyfiles[f]
        /\ keysMade' - keysMade =
              Cardinality({f \in Loaded(pm'.key_file) : keyfiles[f] = ABSENT})
        /\ keyfiles[pm'.key_file] # ABSENT => pm'.key = keyfiles[pm'.key_file]]_vars

\* C23 as the code has it: a key is generated for a loaded path exactly when the
\* file is absent or holds no valid key; a file holding a valid key is never
\* rewritten and its content is the key used; a file with malformed content is
\* overwritten with the newly generated key; files not loaded are untouched.
C23_KeyGeneratedWhenAbsentOrMalformed ==
    [][call'.op = "__init__" =>
        /\ \A f \in KeyFiles :
              keyfiles[f] \notin {ABSENT, MALFORMED} => keyfiles'[f] = keyfiles[f]
        /\ \A f \in KeyFiles \ Loaded(pm'.key_file) : keyfiles'[f] = keyfiles[f]
        /\ \A f \in Loaded(pm'.key_file) :
              keyfiles[f] \in {ABSENT, MALFORMED} =>
                  (keyfiles'[f] > keysMade /\ keyfiles'[f] <= keysMade')
        /\ keysMade' - keysMade =
              Cardinality({f \in Loaded(pm'.key_file) : keyfiles[f] \in {ABSENT, MALFORMED}})
        /\ pm'.key = keyfiles'[pm'.key_file]
        /\ pm'.dm_key = keyfiles'[DEFAULT_KEY_FILE]]_vars

C23_Witness ==
    /\ call.op = "__init__"
    /\ keysMade = 3
    /\ pm.key_file = DEFAULT_KEY_FILE
    /\ pm.key = 3
    /\ keyfiles[DEFAULT_KEY_FILE] = 3

\* C24: a vault instance has one key: the cipher PasswordManager encrypts and
\* decrypts site secrets with and the cipher of its DataManager, which encrypts
\* the admin record, hold the same key, whatever key_file was given.
C24_OneKeyPerVault == pm.key = pm.dm_key

\* C25: a construction that is given a key succeeds, both ciphers use that key,
\* and no key file is read, created or written.
C25_InjectedKeyUsed ==
    [][call'.op = "PasswordManager(key)" =>
        /\ ret'.exc = "none"
        /\ pm'.key = INJECTED_KEY
        /\ pm'.dm_key = INJECTED_KEY
        /\ keyfiles' = keyfiles
        /\ keysMade' = keysMade]_vars

\* one caller's operation run alone on the table tbl: the table it leaves and
\* the outcome it reports
Alone(tbl, c) ==
    LET blob == encrypt(pm.key, 1, Str(c.password)).val
        found == \E i \in 1..Len(tbl) : SameSite(tbl[i].website, TheSite)
    IN CASE c.op = "save_password" ->
                [tbl |-> Append(tbl, [website |-> TheSite, email |-> "u1", password |-> blob]),
                 result |-> SAVED]
         [] c.op = "update_password" /\ found ->
                [tbl |-> [i \in 1..Len(tbl) |->
                            IF SameSite(tbl[i].website, TheSite)
                            THEN [tbl[i] EXCEPT !.password = blob] ELSE tbl[i]],
                 result |-> UPDATED]
         [] c.op = "delete_password" /\ found ->
                [tbl |-> SelectSeq(tbl, LAMBDA row : ~SameSite(row.website, TheSite)),
                 result |-> DELETED]
         [] OTHER -> [tbl |-> tbl, result |-> NOT_FOUND]

\* the callers run one after another in the given order, from the k-th on:
\* the final table and each caller's outcome
RECURSIVE InOrder(_, _, _, _)
InOrder(order, k, tbl, results) ==
    IF k > Len(order) THEN [tbl |-> tbl, results |-> results]
    ELSE LET a == Alone(tbl, threads.callers[order[k]])
         IN InOrder(order, k + 1, a.tbl, [results EXCEPT ![order[k]] = a.result])

Orders == {o \in [1..Callers -> 1..Callers] : \A i, j \in 1..Callers : o[i] = o[j] => i = j}

\* C26: when concurrent save_password, update_password and delete_password
\* calls on one site have all returned, the table and every caller's outcome are
\* those of the calls run one after another in some order; so no update or
\* delete reports success for a record that another caller's delete removed
\* between its existence check and its write.
C26_OutcomeOfSomeSequentialOrder ==
    (threads.callers # <<>> /\ \A t \in 1..Callers : threads.callers[t].pc = "done") =>
        \E o \in Orders :
            LET seq == InOrder(o, 1, threads.initial, [t \in 1..Callers |-> ""])
            IN /\ seq.tbl = passwords
               /\ \A t \in 1..Callers : seq.results[t] = threads.callers[t].result

\* C27: save_password, update_password and delete_password report success only
\* if their write took effect: after a reported save the table has one more row,
\* the saved one; after a reported update the rows of the site hold the new
\* secret; after a reported delete no row of the site is left.
C27_SuccessMeansWritten ==
    [][/\ (call'.op = "save_password" /\ ret'.text = SAVED) =>
              /\ Len(passwords') = Len(passwords) + 1
              /\ Listed(passwords', pm'.key)[Len(passwords')] = Entry(call')
       /\ (call'.op = "update_password" /\ ret'.text = UPDATED) =>
              \A i \in 1..Len(passwords') :
                  SameSite(passwords'[i].website, call'.website) =>
                      decrypt(pm'.key, passwords'[i].password).val = call'.password
       /\ (call'.op = "delete_password" /\ ret'.text = DELETED) =>
              \A i \in 1..Len(passwords') :
                  ~SameSite(passwords'[i].website, call'.website)]_vars

\* C28: while the application is not configured the window shows the first-run
\* screen; a save, list, update or delete of a site secret starts only from the
\* main screen of a configured application; the first-run screen is left only
\* for the login screen, by a save_master_password that stored a strength-valid
\* master password equal to its confirmation and marked the application
\* configured; the main screen is never entered from the first-run screen.
SiteOps == {"save_password", "get_passwords", "update_password", "delete_password"}

C28_FirstRunGate ==
    [][ /\ ~ui'.configured => ui'.screen = "first_run"
        /\ call'.op \in SiteOps => ui.screen = "main" /\ ui.configured
        /\ (ui.screen = "first_run" /\ ui'.screen # "first_run") =>
              /\ ui'.screen = "login"
              /\ call'.op = "save_master_password"
              /\ ret'.exc = "none" /\ ret'.text = "password_saved"
              /\ Valid(call'.password)
              /\ ui'.entries.confirm = call'.password
              /\ ui'.configured
              /\ get_user_by_username(users', "admin").password # 
                     get_user_by_username(users, "admin").password ]_vars

\* an unconfigured application was offered a strength-valid, confirmed master
\* password and still shows the first-run screen
C28_Witness ==
    /\ ~ui.configured /\ ui.screen = "first_run"
    /\ call.op = "save_master_password"
    /\ Valid(call.password) /\ ui.entries.confirm = call.password

AdminWrite ==
    \/ users' # users
    \/ call'.op \in {"save_master_password", "save_new_password"} /\ ret'.exc = "AttributeError"

====
